---- MODULE Spec2Model ----
(***************************************************************************)
(* Model of app/main.py: the risk classifier, the redacting summariser,    *)
(* the per-chat bounded history (DIALOGS), the one-shot safety context     *)
(* (SAFE_CTX) and the message handler text_handler.                        *)
(*                                                                         *)
(* A text is a sequence of words (lower-case, transliterated).  A regular  *)
(* expression of the source is a sequence of elements; an element is a set *)
(* of alternative word sequences, or ANY for the greedy gap.  The word     *)
(* boundaries and separators of the source are the gaps between words.     *)
(***************************************************************************)
EXTENDS Integers, Sequences, FiniteSets, TLC

(* ------------------------------ bounds -------------------------------- *)

\* number of words of the texts enumerated in SpecText
MaxLen == 3
\* number of plain exchanges a conversation may already have had in Init
MaxWarm == 9
\* number of inbound messages handled after Init
MaxMsgs == 3
\* number of append_turn calls per conversation in SpecAppend
MaxAppends == 20

(* --------------------------- small helpers ---------------------------- *)

Min(a, b) == IF a < b THEN a ELSE b

SetMax(S) == CHOOSE x \in S : \A y \in S : y <= x

SetMin(S) == CHOOSE x \in S : \A y \in S : x <= y

\* s[:n]
Take(s, n) == SubSeq(s, 1, Min(n, Len(s)))

\* s[-n:] for n >= 1
LastN(s, n) == IF Len(s) <= n THEN s ELSE SubSeq(s, Len(s) - n + 1, Len(s))

\* needle occurs in hay as a contiguous run
Contains(hay, needle) ==
    \E i \in 1..(Len(hay) - Len(needle) + 1) :
        SubSeq(hay, i, i + Len(needle) - 1) = needle

W(w) == <<w>>

(* ------------------------- pattern groups ----------------------------- *)

ANY == {<<".*">>}

IMMINENT_PATTERNS == <<
    << {<<"pryamo", "seychas">>, W("seychas"), W("nemedlenno"), W("segodnya")},
       ANY,
       {W("prygnu"), W("prygnl"), W("sprygnu"), W("siganu")} >>,
    << {W("idu"), W("poydu"), W("edu")},
       ANY,
       {<<"na", "kryshu">>, <<"na", "kryshe">>, <<"na", "kryshi">>,
        <<"k", "mostu">>, <<"k", "mosta">>, <<"k", "moste">>} >>,
    << {W("tabletki"), W("lekarstva"), W("nozh"), W("nozhom"), W("lezvie"),
        W("petlya"), W("petlyu"), W("gaz"), W("veryovku")},
       ANY,
       {W("kupil"), W("nashel"), W("nashyol"), W("podgotovil")} >>,
    << {W("poveshus")} >>,
    << {<<"pererezhu", "veny">>, <<"pererezh", "veny">>} >>,
    << {<<"sdelayu", "suicid">>, <<"sovershu", "suicid">>} >>
  >>

HIGH_RISK_PATTERNS == <<
    << {<<"ne", "hochu", "zhit">>, <<"ne", "hochyu", "zhit">>} >>,
    << {<<"hochu", "umeret">>} >>,
    << {<<"ustal", "zhit">>, <<"ustala", "zhit">>} >>,
    << {<<"pokonchu", "s", "soboy">>, <<"pokonchu", "so", "soboy">>,
        <<"pokonchit", "s", "soboy">>, <<"pokonchit", "so", "soboy">>} >>,
    << {<<"svesti", "schety", "s", "zhiznyu">>,
        <<"svesti", "schyoty", "s", "zhiznyu">>} >>,
    << {W("suicid")} >>,
    << {W("suicidalnye"), W("suicidalnyh")} >>,
    << {<<"zhizn", "net", "smysla">>, <<"zhizni", "net", "smysla">>} >>
  >>

NSSI_PATTERNS == <<
    << {<<"rezhu", "sebya">>, <<"rezal", "sebya">>, <<"rezala", "sebya">>} >>,
    << {<<"carapayu", "sebya">>} >>,
    << {<<"zhgu", "sebya">>, <<"zhgal", "sebya">>} >>,
    << {<<"byu", "sebya">>} >>,
    << {W("samopovrezhdenie"), W("samopovrezhdeniya"), W("samopovrezhdene")} >>
  >>

THIRD_PERSON_PATTERNS == <<
    << {W("on"), W("ona"), W("drug"), W("podruga"), W("syn"), W("doch"),
        W("brat"), W("sestra"), W("muzh"), W("zhena")},
       ANY,
       {W("hochet"), W("reshil"), W("sobiraetsya")},
       ANY,
       {W("umeret"), W("pokonchit"), W("suicid")} >>
  >>

TOXIC_PATTERNS == <<
    << {<<"nenavizhu", "vseh">>, <<"vse", "urody">>} >>
  >>

(* --------------------------- regex engine ----------------------------- *)

\* alternative a matches text at position i
AltAt(a, text, i) ==
    /\ i + Len(a) - 1 <= Len(text)
    /\ SubSeq(text, i, i + Len(a) - 1) = a

\* the positions at which a match of pat[k..] that starts at i can end
\* (position of the first word after the match)
RECURSIVE Ends(_, _, _, _)
Ends(pat, k, text, i) ==
    IF k > Len(pat) THEN {i}
    ELSE IF pat[k] = ANY
         THEN UNION {Ends(pat, k + 1, text, j) : j \in i..(Len(text) + 1)}
         ELSE UNION {Ends(pat, k + 1, text, i + Len(a)) :
                         a \in {b \in pat[k] : AltAt(b, text, i)}}

\* the alternation "|".join(patterns) tried at position i: the first pattern
\* that matches wins, its gaps greedy; 0 when none matches
RECURSIVE MatchAt(_, _, _, _)
MatchAt(group, p, text, i) ==
    IF p > Len(group) THEN 0
    ELSE IF Ends(group[p], 1, text, i) # {}
         THEN SetMax(Ends(group[p], 1, text, i))
         ELSE MatchAt(group, p + 1, text, i)

\* the positions from i on at which the alternation matches
Starts(group, text, i) == {j \in i..Len(text) : MatchAt(group, 1, text, j) # 0}

\* re.search from position i: <<start, end>> of the leftmost match,
\* <<0, 0>> for no match
SearchFrom(group, text, i) ==
    IF Starts(group, text, i) = {} THEN <<0, 0>>
    ELSE <<SetMin(Starts(group, text, i)),
           MatchAt(group, 1, text, SetMin(Starts(group, text, i)))>>

Search(group, text) == SearchFrom(group, text, 1)

Matches(group, text) == Search(group, text)[1] # 0

\* m.group(0)
Group0(group, text) ==
    SubSeq(text, Search(group, text)[1], Search(group, text)[2] - 1)

\* re.sub: every non-overlapping match, left to right, becomes repl
RECURSIVE SubFrom(_, _, _, _)
SubFrom(group, repl, text, i) ==
    IF SearchFrom(group, text, i)[1] = 0 THEN SubSeq(text, i, Len(text))
    ELSE SubSeq(text, i, SearchFrom(group, text, i)[1] - 1)
            \o repl
            \o SubFrom(group, repl, text, SearchFrom(group, text, i)[2])

Sub(group, repl, text) == SubFrom(group, repl, text, 1)

(* ---------------------------- classifier ------------------------------ *)

\* classify_message with the high_risk group tried before the imminent one
classify_message_high_first(text) ==
    IF Matches(HIGH_RISK_PATTERNS, text)
    THEN <<"high_risk", Group0(HIGH_RISK_PATTERNS, text)>>
    ELSE IF Matches(IMMINENT_PATTERNS, text)
    THEN <<"imminent", Group0(IMMINENT_PATTERNS, text)>>
    ELSE IF Matches(NSSI_PATTERNS, text)
    THEN <<"nssi", Group0(NSSI_PATTERNS, text)>>
    ELSE IF Matches(THIRD_PERSON_PATTERNS, text)
    THEN <<"third_person", Group0(THIRD_PERSON_PATTERNS, text)>>
    ELSE IF Matches(TOXIC_PATTERNS, text)
    THEN <<"toxic", Group0(TOXIC_PATTERNS, text)>>
    ELSE <<"ok", <<>> >>

classify_message(text) ==
    IF Matches(IMMINENT_PATTERNS, text)
    THEN <<"imminent", Group0(IMMINENT_PATTERNS, text)>>
    ELSE IF Matches(HIGH_RISK_PATTERNS, text)
    THEN <<"high_risk", Group0(HIGH_RISK_PATTERNS, text)>>
    ELSE IF Matches(NSSI_PATTERNS, text)
    THEN <<"nssi", Group0(NSSI_PATTERNS, text)>>
    ELSE IF Matches(THIRD_PERSON_PATTERNS, text)
    THEN <<"third_person", Group0(THIRD_PERSON_PATTERNS, text)>>
    ELSE IF Matches(TOXIC_PATTERNS, text)
    THEN <<"toxic", Group0(TOXIC_PATTERNS, text)>>
    ELSE <<"ok", <<>> >>

CrisisLabels == {"imminent", "high_risk", "nssi", "third_person"}

(* ----------------------------- redaction ------------------------------ *)

\* the placeholders, word by word; the brackets are words of their own
PH_IMMINENT == <<"[", "opisanie", "neposredstvennoy", "opasnosti", "udaleno", "]">>
PH_HIGH_RISK == <<"[", "vysokiy", "risk", "]">>
PH_NSSI == <<"[", "samopovrezhdenie", "]">>

SUMMARY_PREFIX == "Ranee vyyavlen vysokiy uroven distressa/risk. ... Svodka polzovatelya (ochischeno): "

\* redacted[:500]; the length of a text is counted in words
SUMMARY_CAP == 500

\* Redact without the substitution of the nssi group
RedactNoNssi(text) ==
    Sub(HIGH_RISK_PATTERNS, PH_HIGH_RISK,
        Sub(IMMINENT_PATTERNS, PH_IMMINENT, text))

Redact(text) ==
    Sub(NSSI_PATTERNS, PH_NSSI,
        Sub(HIGH_RISK_PATTERNS, PH_HIGH_RISK,
            Sub(IMMINENT_PATTERNS, PH_IMMINENT, text)))

\* build_safe_summary without the slice
build_safe_summary_uncapped(text) == <<SUMMARY_PREFIX>> \o Redact(text)

build_safe_summary(text) == <<SUMMARY_PREFIX>> \o Take(Redact(text), SUMMARY_CAP)


(* ------------------------- fixed texts -------------------------------- *)

EMERGENCY_RESOURCES_HTML == "<b>Esli est risk dlya zhizni - nemedlenno zvonite 112.</b> ..."

SAFETY_FOOTER_HTML == "\n\n<b>Esli sostoyanie uhudshaetsya ili est risk - zvonite 112 ili 051, libo sm. /resources.</b>"

CRISIS_PRESETS ==
    [l \in CrisisLabels |->
        CASE l = "imminent" ->
               <<"<b>Pohozhe, est neposredstvennaya opasnost.</b> ...",
                 EMERGENCY_RESOURCES_HTML, "<b>Mogu sprosit?</b> ...">>
          [] l = "high_risk" ->
               <<"<b>Vizhu, chto ochen tyazhelo.</b> ...",
                 EMERGENCY_RESOURCES_HTML, "Esli gotovy, napishite ...">>
          [] l = "nssi" ->
               <<"<b>Pohozhe na samopovrezhdenie bez namereniya umeret.</b> ...",
                 EMERGENCY_RESOURCES_HTML, "Esli smozhete, napishite ...">>
          [] l = "third_person" ->
               <<"<b>Esli rech o drugom cheloveke.</b> ...",
                 EMERGENCY_RESOURCES_HTML, "Esli napishete vozrast ...">>]

SYSTEM_PROMPT == <<"Ty russkoyazychnyy konsultant po psihologicheskoy podderzhke. ...">>

TOXIC_LINE == <<"Ponimayu zlost. Davayte govorit uvazhitelno - tak budet produktivnee.">>

FALLBACK_REPLY == <<"Ne udalos obratitsya k modeli. Bazovaya podderzhka:",
                    "1) Dyhanie 4-4-6 2-3 minuty.",
                    "2) Zapishite tri konkretnye zadachi na blizhayshiy chas.",
                    "3) Svyazhites s blizkim. Esli risk usilivaetsya - 112 ili 051.">>

MAX_TURNS == 8

None == <<>>

(* ------------------------ history and rendering ----------------------- *)

Turn(role, content) == [role |-> role, content |-> content]

\* append_turn without the length check
append_turn_unbounded(msgs, role, content) == Append(msgs, Turn(role, content))

\* append_turn keeping the first turns instead of the last ones
append_turn_keep_oldest(msgs, role, content) ==
    Take(Append(msgs, Turn(role, content)), 2 * MAX_TURNS + 2)

\* append_turn on the list msgs of one chat; the result is the chat's list
append_turn(msgs, role, content) ==
    LET m == Append(msgs, Turn(role, content))
    IN  IF Len(m) > 2 * MAX_TURNS + 2 THEN LastN(m, 2 * MAX_TURNS + 2) ELSE m

\* html.escape(s) of one word
EscapeWord(w) ==
    CASE w = "&" -> "&amp;"
      [] w = "<" -> "&lt;"
      [] w = ">" -> "&gt;"
      [] w = "\"" -> "&quot;"
      [] w = "'" -> "&#x27;"
      [] OTHER -> w

html_escape(s) == [i \in 1..Len(s) |-> EscapeWord(s[i])]

render_with_footer(reply_text) == html_escape(reply_text) \o <<SAFETY_FOOTER_HTML>>


(* ------------------------------ state --------------------------------- *)

ChatIds == {1, 2}
HandlerIds == {1, 2}

\* the chats and handler slots used when updates are delivered one at a time
SeqChats == {1}
SeqHandlers == {1}

VARIABLES
    DIALOGS,    \* chat id -> list of turns (<<>> when the chat has no entry)
    SAFE_CTX,   \* chat id -> stashed summary (None when the chat has no entry)
    handlers,   \* handler slot -> the locals and position of one text_handler run
    log,        \* the inbound messages received so far, in order
    appended,   \* chat id -> the turns passed to append_turn (SpecAppend only)
    probe       \* one text with its label and summary (SpecText only)

vars == <<DIALOGS, SAFE_CTX, handlers, log, appended, probe>>

\* what text_handler never touches
aux == <<appended, probe>>

NoProbe == [text |-> <<>>, label |-> "", matched |-> <<>>, summary |-> <<>>]

IdleHandler ==
    [pc |-> "idle", chat |-> 0, text |-> <<>>, label |-> "", safe |-> None,
     req |-> <<>>, reply |-> <<>>, out |-> <<>>, calls |-> 0]

Finished(h) == handlers[h].pc \in {"idle", "done", "error"}

(* ------------------------------ inputs -------------------------------- *)

T_OK == <<"spasibo", "mne", "pomoglo">>
T_TOXIC == <<"vse", "urody">>
T_IMMINENT == <<"segodnya", "poveshus">>
T_HIGH_RISK == <<"ya", "hochu", "umeret">>
T_NSSI == <<"rezhu", "sebya">>
T_THIRD == <<"drug", "hochet", "umeret">>

Msgs == {T_OK, T_TOXIC, T_IMMINENT, T_HIGH_RISK, T_NSSI, T_THIRD}

R_PLAIN == <<"dyshite", "medlenno">>
R_MARKUP == <<"vdoh", "<", "vydoh", "&", "pauza">>

Replies == {R_PLAIN, R_MARKUP}

\* label and summary of every inbound text, evaluated once
LabelOf == [t \in Msgs |-> classify_message(t)[1]]
SummaryOf == [t \in Msgs |-> build_safe_summary(t)]

(* --------------------------- text_handler ----------------------------- *)

\* the subscript of CRISIS_PRESETS at the reply of the crisis branch
PresetKey(label) == "Ellipsis"

\* SAFE_CTX.setdefault(chat_id, summary): the first stash wins
StashFirstWins(ctx, c, summary) ==
    IF ctx[c] = None THEN [ctx EXCEPT ![c] = summary] ELSE ctx

\* SAFE_CTX[chat_id] = summary
Stash(ctx, c, summary) == [ctx EXCEPT ![c] = summary]

\* SAFE_CTX.get(chat_id) in place of pop: the entry stays
PopCtxKeep(ctx, c) == ctx

\* SAFE_CTX.pop(chat_id, None): the map afterwards
PopCtx(ctx, c) == [ctx EXCEPT ![c] = None]

\* if not DIALOGS.get(chat_id): append_turn(chat_id, "system", SYSTEM_PROMPT)
ensure_system_prompt(msgs) ==
    IF msgs = <<>> THEN append_turn(msgs, "system", SYSTEM_PROMPT) ELSE msgs

\* the summary appended at the end of the list instead of inserted at index 0
insert_safe_tail(msgs, safe) ==
    IF safe # None THEN Append(msgs, Turn("system", safe)) ELSE msgs

\* if safe: DIALOGS[chat_id].insert(0, {"role": "system", "content": safe})
insert_safe(msgs, safe) ==
    IF safe # None THEN <<Turn("system", safe)>> \o msgs ELSE msgs

\* the list prepared without the user turn
PreparedNoUserTurn(msgs, safe, text) ==
    insert_safe(ensure_system_prompt(msgs), safe)

\* the chat's list when the backend is called: prompt ensured, pending
\* context inserted, user turn appended
Prepared(msgs, safe, text) ==
    append_turn(insert_safe(ensure_system_prompt(msgs), safe), "user", text)

\* a crisis branch that also stores the raw message as a user turn
HandleCrisisKeepsTurn(h, c, t) ==
    /\ SAFE_CTX' = Stash(SAFE_CTX, c, SummaryOf[t])
    /\ DIALOGS' = [DIALOGS EXCEPT ![c] = append_turn(@, "user", t)]
    /\ handlers' = [handlers EXCEPT ![h] =
           [IdleHandler EXCEPT !.chat = c, !.text = t, !.label = LabelOf[t],
                               !.pc = "error"]]

\* crisis branch: stash the summary, then reply with the preset; a subscript
\* that is not a key of CRISIS_PRESETS raises KeyError before anything is sent
HandleCrisis(h, c, t) ==
    /\ SAFE_CTX' = Stash(SAFE_CTX, c, SummaryOf[t])
    /\ handlers' = [handlers EXCEPT ![h] =
           [IdleHandler EXCEPT
              !.chat = c, !.text = t, !.label = LabelOf[t],
              !.pc = IF PresetKey(LabelOf[t]) \in DOMAIN CRISIS_PRESETS
                     THEN "done" ELSE "error",
              !.out = IF PresetKey(LabelOf[t]) \in DOMAIN CRISIS_PRESETS
                      THEN <<CRISIS_PRESETS[PresetKey(LabelOf[t])]>>
                      ELSE <<>>]]
    /\ UNCHANGED DIALOGS

\* from the prompt check to the suspension in gigachat_client.chat
Converse(h, c, t, rec) ==
    /\ DIALOGS' = [DIALOGS EXCEPT ![c] = Prepared(DIALOGS[c], SAFE_CTX[c], t)]
    /\ SAFE_CTX' = PopCtx(SAFE_CTX, c)
    /\ handlers' = [handlers EXCEPT ![h] =
           [rec EXCEPT !.pc = "await_chat", !.safe = SAFE_CTX[c],
                       !.req = Prepared(DIALOGS[c], SAFE_CTX[c], t),
                       !.calls = rec.calls + 1]]

ReceiveCrisis(h, c, t) ==
    /\ Finished(h)
    /\ Len(log) < MaxMsgs
    /\ LabelOf[t] \in CrisisLabels
    /\ log' = Append(log, [chat |-> c, text |-> t])
    /\ HandleCrisis(h, c, t)
    /\ UNCHANGED aux

\* a toxic branch that returns after the de-escalation line
ReceiveToxicShortCircuit(h, c, t) ==
    /\ Finished(h)
    /\ Len(log) < MaxMsgs
    /\ LabelOf[t] = "toxic"
    /\ log' = Append(log, [chat |-> c, text |-> t])
    /\ handlers' = [handlers EXCEPT ![h] =
           [IdleHandler EXCEPT !.chat = c, !.text = t, !.label = "toxic",
                               !.pc = "done", !.out = <<TOXIC_LINE>>]]
    /\ UNCHANGED <<DIALOGS, SAFE_CTX, aux>>

\* toxic: the de-escalation line is sent, the handler is suspended in the send
ReceiveToxic(h, c, t) ==
    /\ Finished(h)
    /\ Len(log) < MaxMsgs
    /\ LabelOf[t] = "toxic"
    /\ log' = Append(log, [chat |-> c, text |-> t])
    /\ handlers' = [handlers EXCEPT ![h] =
           [IdleHandler EXCEPT !.chat = c, !.text = t, !.label = "toxic",
                               !.pc = "toxic_sent", !.out = <<TOXIC_LINE>>]]
    /\ UNCHANGED <<DIALOGS, SAFE_CTX, aux>>

ContinueToxic(h) ==
    /\ handlers[h].pc = "toxic_sent"
    /\ Converse(h, handlers[h].chat, handlers[h].text, handlers[h])
    /\ UNCHANGED <<log, aux>>

ReceiveOk(h, c, t) ==
    /\ Finished(h)
    /\ Len(log) < MaxMsgs
    /\ LabelOf[t] = "ok"
    /\ log' = Append(log, [chat |-> c, text |-> t])
    /\ Converse(h, c, t, [IdleHandler EXCEPT !.chat = c, !.text = t, !.label = "ok"])
    /\ UNCHANGED aux

\* the reply stored as the assistant turn of every chat that has a history
AnswerEveryChat(h, reply) ==
    /\ DIALOGS' = [c \in ChatIds |->
                      IF c = handlers[h].chat \/ DIALOGS[c] # <<>>
                      THEN append_turn(DIALOGS[c], "assistant", reply)
                      ELSE DIALOGS[c]]
    /\ handlers' = [handlers EXCEPT ![h] =
           [@ EXCEPT !.pc = "done", !.reply = reply,
                     !.out = Append(@, render_with_footer(reply))]]
    /\ UNCHANGED <<SAFE_CTX, log, aux>>

\* the reply is stored as the assistant turn and sent with the footer
Answer(h, reply) ==
    /\ DIALOGS' = [DIALOGS EXCEPT ![handlers[h].chat] =
                      append_turn(@, "assistant", reply)]
    /\ handlers' = [handlers EXCEPT ![h] =
           [@ EXCEPT !.pc = "done", !.reply = reply,
                     !.out = Append(@, render_with_footer(reply))]]
    /\ UNCHANGED <<SAFE_CTX, log, aux>>

\* a handler that discards the first reply and calls the backend once more
ChatReturnsAsksAgain(h, reply) ==
    /\ handlers[h].pc = "await_chat"
    /\ IF handlers[h].calls < 2
       THEN /\ handlers' = [handlers EXCEPT ![h].calls = @ + 1]
            /\ UNCHANGED <<DIALOGS, SAFE_CTX, log, aux>>
       ELSE Answer(h, reply)

ChatReturns(h, reply) ==
    /\ handlers[h].pc = "await_chat"
    /\ Answer(h, reply)

\* a failure path that sends the fallback but stores no assistant turn
ChatFailsNoTurn(h) ==
    /\ handlers[h].pc = "await_chat"
    /\ handlers' = [handlers EXCEPT ![h] =
           [@ EXCEPT !.pc = "done", !.reply = FALLBACK_REPLY,
                     !.out = Append(@, render_with_footer(FALLBACK_REPLY))]]
    /\ UNCHANGED <<DIALOGS, SAFE_CTX, log, aux>>

\* any exception of gigachat_client.chat
ChatFails(h) ==
    /\ handlers[h].pc = "await_chat"
    /\ Answer(h, FALLBACK_REPLY)

(* --------------------------- specification ---------------------------- *)

\* the history of a chat after k plain exchanges, each answered by the backend
RECURSIVE Warm(_)
Warm(k) ==
    IF k = 0 THEN <<>>
    ELSE append_turn(Prepared(Warm(k - 1), None, T_OK), "assistant", R_PLAIN)

Init ==
    /\ \E k \in 0..MaxWarm :
          DIALOGS = [c \in ChatIds |-> IF c \in SeqChats THEN Warm(k) ELSE <<>>]
    /\ SAFE_CTX = [c \in ChatIds |-> None]
    /\ handlers = [h \in HandlerIds |-> IdleHandler]
    /\ log = <<>>
    /\ appended = [c \in ChatIds |-> <<>>]
    /\ probe = NoProbe

\* updates are dispatched one at a time: a message is received only when no
\* handler is running
NoneRunning == \A h \in HandlerIds : Finished(h)

Next ==
    \/ \E h \in SeqHandlers, c \in SeqChats, t \in Msgs :
          NoneRunning /\ ReceiveCrisis(h, c, t)
    \/ \E h \in SeqHandlers, c \in SeqChats, t \in Msgs :
          NoneRunning /\ ReceiveToxic(h, c, t)
    \/ \E h \in SeqHandlers, c \in SeqChats, t \in Msgs :
          NoneRunning /\ ReceiveOk(h, c, t)
    \/ \E h \in SeqHandlers : ContinueToxic(h)
    \/ \E h \in SeqHandlers, r \in Replies : ChatReturns(h, r)
    \/ \E h \in SeqHandlers : ChatFails(h)

Spec == Init /\ [][Next]_vars


\* the send of the de-escalation line completes, and the backend call
\* returns or fails within GigaChatClient.TIMEOUT
Fairness ==
    \A h \in SeqHandlers :
        /\ WF_vars(ContinueToxic(h))
        /\ WF_vars((\E r \in Replies : ChatReturns(h, r)) \/ ChatFails(h))

SpecFair == Spec /\ Fairness

(* ------------- classify_message and build_safe_summary --------------- *)

\* words that between them start, continue and end a match of every group
Vocab == {"seychas", "prygnu", "sdelayu", "suicid", "samopovrezhdenie",
          "drug", "hochet", "umeret", "vse", "urody"}

Filler(n) == [i \in 1..n |-> "vse"]

\* texts around the cap of the summary
LongTexts == {Filler(SUMMARY_CAP), Filler(SUMMARY_CAP + 1),
              Filler(SUMMARY_CAP) \o <<"suicid">>,
              <<"suicid">> \o Filler(SUMMARY_CAP),
              Filler(SUMMARY_CAP - 2) \o <<"samopovrezhdenie">>}

Texts == UNION {[1..k -> Vocab] : k \in 0..MaxLen} \cup LongTexts

\* label, matched = classify_message(text)
Classify ==
    /\ probe.label = ""
    /\ probe' = [probe EXCEPT !.label = classify_message(probe.text)[1],
                              !.matched = classify_message(probe.text)[2]]
    /\ UNCHANGED <<DIALOGS, SAFE_CTX, handlers, log, appended>>

\* build_safe_summary(text)
Summarise ==
    /\ probe.summary = <<>>
    /\ probe' = [probe EXCEPT !.summary = build_safe_summary(probe.text)]
    /\ UNCHANGED <<DIALOGS, SAFE_CTX, handlers, log, appended>>

InitText ==
    /\ DIALOGS = [c \in ChatIds |-> <<>>]
    /\ SAFE_CTX = [c \in ChatIds |-> None]
    /\ handlers = [h \in HandlerIds |-> IdleHandler]
    /\ log = <<>>
    /\ appended = [c \in ChatIds |-> <<>>]
    /\ \E t \in Texts : probe = [NoProbe EXCEPT !.text = t]

NextText == Classify \/ Summarise

SpecText == InitText /\ [][NextText]_vars

(* ------------------ handlers running concurrently -------------------- *)

\* the inbound texts and backend replies of the concurrent runs: one plain,
\* one toxic and one crisis text, one generated reply and the failure
ConcMsgs == {T_OK, T_TOXIC, T_HIGH_RISK}
ConcReplies == {R_PLAIN}

\* a new run of text_handler takes the first slot that is free
FirstFree(h) == Finished(h) /\ \A g \in HandlerIds : g < h => ~Finished(g)

InitConc ==
    /\ DIALOGS = [c \in ChatIds |-> <<>>]
    /\ SAFE_CTX = [c \in ChatIds |-> None]
    /\ handlers = [h \in HandlerIds |-> IdleHandler]
    /\ log = <<>>
    /\ appended = [c \in ChatIds |-> <<>>]
    /\ probe = NoProbe

\* updates are dispatched as they arrive: a run starts while another one is
\* suspended in an await
NextConc ==
    \/ \E h \in HandlerIds, c \in ChatIds, t \in ConcMsgs :
          FirstFree(h) /\ ReceiveCrisis(h, c, t)
    \/ \E h \in HandlerIds, c \in ChatIds, t \in ConcMsgs :
          FirstFree(h) /\ ReceiveToxic(h, c, t)
    \/ \E h \in HandlerIds, c \in ChatIds, t \in ConcMsgs :
          FirstFree(h) /\ ReceiveOk(h, c, t)
    \/ \E h \in HandlerIds : ContinueToxic(h)
    \/ \E h \in HandlerIds, r \in ConcReplies : ChatReturns(h, r)
    \/ \E h \in HandlerIds : ChatFails(h)

SpecConc == InitConc /\ [][NextConc]_vars


(* ------------------- append_turn taken on its own --------------------- *)

\* the n-th call on a chat appends a turn that no other call appends
NthTurn(n) ==
    Turn(IF n % 2 = 1 THEN "user" ELSE "assistant", <<ToString(n)>>)

AppendStep(c) ==
    /\ Len(appended[c]) < MaxAppends
    /\ DIALOGS' = [DIALOGS EXCEPT ![c] =
           append_turn(@, NthTurn(Len(appended[c]) + 1).role,
                          NthTurn(Len(appended[c]) + 1).content)]
    /\ appended' = [appended EXCEPT ![c] = Append(@, NthTurn(Len(@) + 1))]
    /\ UNCHANGED <<SAFE_CTX, handlers, log, probe>>

InitAppend ==
    /\ DIALOGS = [c \in ChatIds |-> <<>>]
    /\ SAFE_CTX = [c \in ChatIds |-> None]
    /\ handlers = [h \in HandlerIds |-> IdleHandler]
    /\ log = <<>>
    /\ appended = [c \in ChatIds |-> <<>>]
    /\ probe = NoProbe

NextAppend == \E c \in ChatIds : AppendStep(c)

SpecAppend == InitAppend /\ [][NextAppend]_vars

(* ----------------------- vocabulary of the claims --------------------- *)

HistoryBound == 2 * MAX_TURNS + 2

SysTurn(s) == Turn("system", s)

IsCrisis(t) == LabelOf[t] \in CrisisLabels

\* the step on which handler h reaches the backend call
CallStep(h) == handlers[h].pc # "await_chat" /\ handlers'[h].pc = "await_chat"

\* the step on which a message is received
ReceiveStep == Len(log') = Len(log) + 1

\* system turns of a history other than the fixed prompt
SummaryTurns(msgs) ==
    {k \in 1..Len(msgs) : msgs[k].role = "system" /\ msgs[k].content # SYSTEM_PROMPT}

Occurrences(msgs, turn) == Cardinality({k \in 1..Len(msgs) : msgs[k] = turn})

Adjacent(msgs, a, b) == \E k \in 1..(Len(msgs) - 1) : msgs[k] = a /\ msgs[k + 1] = b


\* the history a Benign message leaves at the backend call: the pending
\* context first, then the turns already there (the prompt when there are
\* none), then the new user turn, cut to the last HistoryBound turns
BenignHistory(msgs, ctx, text) ==
    LastN((IF ctx # None THEN <<SysTurn(ctx)>> ELSE <<>>)
            \o (IF msgs = <<>> THEN <<SysTurn(SYSTEM_PROMPT)>> ELSE msgs)
            \o <<Turn("user", text)>>,
          HistoryBound)

(* ------------------------------ claims -------------------------------- *)

\* C1: a handler that has handled a crisis-labelled message has ended
\* normally and has sent exactly the CRISIS_PRESETS payload of that label.
C1_CrisisReplyIsPreset ==
    \A h \in HandlerIds :
        handlers[h].label \in CrisisLabels =>
            /\ handlers[h].pc = "done"
            /\ handlers[h].out = <<CRISIS_PRESETS[handlers[h].label]>>

\* C2: the step that handles a crisis-labelled message calls no backend,
\* leaves DIALOGS unchanged and changes SAFE_CTX only at the chat of the
\* message, where it stores the redacted summary of that message.
C2_CrisisFrame ==
    [][ReceiveStep /\ IsCrisis(log'[Len(log')].text) =>
          /\ DIALOGS' = DIALOGS
          /\ SAFE_CTX' = [SAFE_CTX EXCEPT ![log'[Len(log')].chat] =
                             SummaryOf[log'[Len(log')].text]]
          /\ \A h \in HandlerIds :
                handlers'[h] # handlers[h] =>
                    /\ handlers'[h].pc # "await_chat"
                    /\ handlers'[h].calls = 0
                    /\ handlers'[h].req = <<>>]_vars

\* a crisis message has been handled on a chat that has a history
C2_Witness ==
    \E h \in HandlerIds :
        /\ handlers[h].label \in CrisisLabels
        /\ handlers[h].calls = 0
        /\ SAFE_CTX[handlers[h].chat] = SummaryOf[handlers[h].text]
        /\ Len(DIALOGS[handlers[h].chat]) > 0

\* C3: no turn of a request passed to the backend contains the raw text of
\* a message that was received and classified with a crisis label.
C3_NoRawCrisisTextInRequest ==
    \A h \in HandlerIds :
        handlers[h].pc = "await_chat" =>
            \A i \in 1..Len(log) :
                IsCrisis(log[i].text) =>
                    \A k \in 1..Len(handlers[h].req) :
                        ~Contains(handlers[h].req[k].content, log[i].text)

\* C4: when a handler that found a pending context is at the backend call,
\* the request holds exactly one System turn carrying that context and the
\* chat has no SAFE_CTX entry.
C4_SummaryReachesBackendOnce ==
    \A h \in HandlerIds :
        (handlers[h].pc = "await_chat" /\ handlers[h].safe # None) =>
            /\ Occurrences(handlers[h].req, SysTurn(handlers[h].safe)) = 1
            /\ SAFE_CTX[handlers[h].chat] = None

\* C5 as stated: in the request of a handler that consumed a pending
\* context, the System turn carrying it directly precedes the new User turn.
C5_SummaryAdjacentToUser ==
    \A h \in HandlerIds :
        (handlers[h].pc = "await_chat" /\ handlers[h].safe # None) =>
            Adjacent(handlers[h].req, SysTurn(handlers[h].safe),
                     Turn("user", handlers[h].text))

\* C5 amended: the step that consumes a pending context puts the System
\* turn carrying it at index 0, ahead of every turn already in the history
\* (the fixed prompt included), and the new User turn at the end; the history
\* passed to the backend is the last 2*MAX_TURNS+2 turns of that list, and
\* in it the two turns are never adjacent.
C5_SummaryAtHead ==
    [][\A h \in HandlerIds :
          (CallStep(h) /\ SAFE_CTX[handlers'[h].chat] # None) =>
              LET c == handlers'[h].chat
                  s == SysTurn(SAFE_CTX[c])
                  u == Turn("user", handlers'[h].text)
                  prior == IF DIALOGS[c] = <<>>
                           THEN <<SysTurn(SYSTEM_PROMPT)>> ELSE DIALOGS[c]
              IN  /\ handlers'[h].req = LastN(<<s>> \o prior \o <<u>>, HistoryBound)
                  /\ DIALOGS'[c] = handlers'[h].req
                  /\ ~Adjacent(handlers'[h].req, s, u)]_vars

\* a pending context was consumed and heads the request, the prompt behind it
C5_Witness ==
    \E h \in HandlerIds :
        /\ handlers[h].pc = "await_chat"
        /\ handlers[h].safe # None
        /\ Len(handlers[h].req) >= 3
        /\ handlers[h].req[1] = SysTurn(handlers[h].safe)
        /\ handlers[h].req[2] = SysTurn(SYSTEM_PROMPT)
        /\ handlers[h].req[Len(handlers[h].req)] = Turn("user", handlers[h].text)

\* C6: at every suspension and completion of a handler the history of every
\* chat has at most 2*MAX_TURNS+2 turns.
C6_HistoryBounded ==
    \A c \in ChatIds : Len(DIALOGS[c]) <= 2 * MAX_TURNS + 2

\* a pending context was inserted into a history that is at the bound
C6_Witness ==
    \E h \in HandlerIds :
        /\ handlers[h].pc = "await_chat"
        /\ handlers[h].safe # None
        /\ Len(DIALOGS[handlers[h].chat]) = 2 * MAX_TURNS + 2

\* C7: after n append_turn calls on a chat its history is the last
\* min(n, 2*MAX_TURNS+2) appended turns in the order of the calls.
C7_LastTurnsInOrder ==
    \A c \in ChatIds :
        /\ Len(DIALOGS[c]) = Min(Len(appended[c]), 2 * MAX_TURNS + 2)
        /\ \A k \in 1..Len(DIALOGS[c]) :
              DIALOGS[c][k] = appended[c][Len(appended[c]) - Len(DIALOGS[c]) + k]

\* more turns were appended than the bound keeps
C7_Witness ==
    \E c \in ChatIds : Len(appended[c]) >= 2 * MAX_TURNS + 3

\* C8: when the message handled before on the same chat was Benign/Toxic,
\* a handler reaching the backend call finds no pending context, adds no
\* summary turn and leaves no entry in SAFE_CTX.
C8_ReadOnce ==
    [][\A h \in HandlerIds :
          (/\ CallStep(h)
           /\ Len(log') >= 2
           /\ log'[Len(log') - 1].chat = handlers'[h].chat
           /\ ~IsCrisis(log'[Len(log') - 1].text)) =>
              /\ handlers'[h].safe = None
              /\ SAFE_CTX'[handlers'[h].chat] = None
              /\ Cardinality(SummaryTurns(DIALOGS'[handlers'[h].chat]))
                    <= Cardinality(SummaryTurns(DIALOGS[handlers'[h].chat]))]_vars

\* crisis, then a Benign/Toxic message that took the summary, then a second
\* Benign/Toxic message that found none: the summary is in the history once
C8_Witness ==
    \E h \in HandlerIds :
        /\ Len(log) = 3
        /\ IsCrisis(log[1].text)
        /\ ~IsCrisis(log[2].text)
        /\ ~IsCrisis(log[3].text)
        /\ handlers[h].pc = "await_chat"
        /\ handlers[h].safe = None
        /\ Occurrences(handlers[h].req, SysTurn(SummaryOf[log[1].text])) = 1

\* C9: a crisis message always leaves its own summary in SAFE_CTX, whatever
\* was stashed before; a handler reaching the backend call right after a
\* crisis message takes the summary of that message and adds at most that
\* one summary turn.
C9_LastWriteWins ==
    [][/\ (ReceiveStep /\ IsCrisis(log'[Len(log')].text)) =>
              SAFE_CTX'[log'[Len(log')].chat] = SummaryOf[log'[Len(log')].text]
       /\ \A h \in HandlerIds :
             (/\ CallStep(h)
              /\ Len(log') >= 2
              /\ log'[Len(log') - 1].chat = handlers'[h].chat
              /\ IsCrisis(log'[Len(log') - 1].text)) =>
                 LET c == handlers'[h].chat
                     s == SummaryOf[log'[Len(log') - 1].text]
                 IN  /\ handlers'[h].safe = s
                     /\ Cardinality(SummaryTurns(DIALOGS'[c]))
                           <= Cardinality(SummaryTurns(DIALOGS[c])) + 1
                     /\ \A k \in SummaryTurns(DIALOGS'[c]) :
                           \/ DIALOGS'[c][k].content = s
                           \/ \E j \in SummaryTurns(DIALOGS[c]) :
                                 DIALOGS[c][j] = DIALOGS'[c][k]]_vars

\* two crisis messages with different summaries, then a Benign/Toxic one:
\* only the summary of the second is in the request
C9_Witness ==
    \E h \in HandlerIds :
        /\ Len(log) = 3
        /\ IsCrisis(log[1].text)
        /\ IsCrisis(log[2].text)
        /\ SummaryOf[log[1].text] # SummaryOf[log[2].text]
        /\ handlers[h].pc = "await_chat"
        /\ handlers[h].safe = SummaryOf[log[2].text]
        /\ Occurrences(handlers[h].req, SysTurn(SummaryOf[log[2].text])) = 1
        /\ Occurrences(handlers[h].req, SysTurn(SummaryOf[log[1].text])) = 0

\* the handler of a Benign/Toxic message ended on the failure path
FailedHandler(h) ==
    /\ handlers[h].pc = "done"
    /\ handlers[h].label \notin CrisisLabels
    /\ handlers[h].reply = FALLBACK_REPLY

\* C10 as stated: after a backend failure the last outbound message is the
\* fallback text verbatim and the same text is the last Assistant turn.
C10_FallbackVerbatim ==
    \A h \in HandlerIds :
        FailedHandler(h) =>
            /\ handlers[h].out[Len(handlers[h].out)] = FALLBACK_REPLY
            /\ DIALOGS[handlers[h].chat][Len(DIALOGS[handlers[h].chat])]
                  = Turn("assistant", FALLBACK_REPLY)

\* C10 amended: after a backend failure the last outbound message is the
\* fallback text, unchanged by escaping, followed by the fixed safety
\* footer, and the fallback text without the footer is the last Assistant
\* turn of the history.
C10_FallbackWithFooter ==
    \A h \in HandlerIds :
        FailedHandler(h) =>
            /\ handlers[h].out[Len(handlers[h].out)]
                  = FALLBACK_REPLY \o <<SAFETY_FOOTER_HTML>>
            /\ DIALOGS[handlers[h].chat][Len(DIALOGS[handlers[h].chat])]
                  = Turn("assistant", FALLBACK_REPLY)

\* a backend call has failed and the handler has completed
C10_Witness ==
    \E h \in HandlerIds : FailedHandler(h) /\ handlers[h].calls = 1

\* C11: a handler of a toxic message has sent the de-escalation line before
\* anything else, never ends without a backend call, and its step to the
\* backend call does what a Benign message does: it takes the pending
\* context, leaves none behind, stores the user turn and calls the backend
\* with the resulting history.
C11_ToxicContinues ==
    /\ [](\A h \in HandlerIds :
            handlers[h].label = "toxic" =>
               /\ handlers[h].out[1] = TOXIC_LINE
               /\ handlers[h].pc \in {"toxic_sent", "await_chat", "done"}
               /\ handlers[h].pc = "done" => handlers[h].calls = 1)
    /\ [][\A h \in HandlerIds :
            (handlers[h].pc = "toxic_sent" /\ handlers'[h] # handlers[h]) =>
                LET c == handlers[h].chat
                IN  /\ handlers[h].out = <<TOXIC_LINE>>
                    /\ handlers'[h].pc = "await_chat"
                    /\ handlers'[h].safe = SAFE_CTX[c]
                    /\ SAFE_CTX'[c] = None
                    /\ DIALOGS'[c] = BenignHistory(DIALOGS[c], SAFE_CTX[c],
                                                   handlers[h].text)
                    /\ handlers'[h].req = DIALOGS'[c]
                    /\ handlers'[h].calls = 1]_vars

\* a toxic message took a pending context and is at the backend call
C11_Witness ==
    \E h \in HandlerIds :
        /\ handlers[h].label = "toxic"
        /\ handlers[h].pc = "await_chat"
        /\ handlers[h].safe # None
        /\ handlers[h].out = <<TOXIC_LINE>>
        /\ handlers[h].req[Len(handlers[h].req)] = Turn("user", handlers[h].text)

\* some pattern of the group matches somewhere in the text
HasMatch(group, text) ==
    \E p \in 1..Len(group) : \E i \in 1..Len(text) :
        Ends(group[p], 1, text, i) # {}

\* the labels from the most severe down, each with its pattern group
Severity == <<"imminent", "high_risk", "nssi", "third_person", "toxic">>

GroupOf(label) ==
    CASE label = "imminent" -> IMMINENT_PATTERNS
      [] label = "high_risk" -> HIGH_RISK_PATTERNS
      [] label = "nssi" -> NSSI_PATTERNS
      [] label = "third_person" -> THIRD_PERSON_PATTERNS
      [] label = "toxic" -> TOXIC_PATTERNS

Ranks(text) == {k \in 1..Len(Severity) : HasMatch(GroupOf(Severity[k]), text)}

AllMatches(group, text) ==
    UNION {{SubSeq(text, i, e - 1) : e \in Ends(group[p], 1, text, i)} :
                <<p, i>> \in (1..Len(group)) \X (1..Len(text))}

\* what the three redacted groups can match in the text
Sensitive(text) ==
    AllMatches(IMMINENT_PATTERNS, text)
        \cup AllMatches(HIGH_RISK_PATTERNS, text)
        \cup AllMatches(NSSI_PATTERNS, text)

Placeholders == {PH_IMMINENT, PH_HIGH_RISK, PH_NSSI}

\* lengths of a placeholder's beginning that the slice left at the end of s
CutTails(s) ==
    {k \in 1..Len(s) : \E ph \in Placeholders :
                            k < Len(ph) /\ LastN(s, k) = Take(ph, k)}

\* s with every placeholder, and a placeholder cut by the slice, blanked
OutsidePlaceholders(s) ==
    Sub(<< <<Placeholders>> >>, <<"#">>,
        IF CutTails(s) = {} THEN s ELSE Take(s, Len(s) - SetMax(CutTails(s))))

C14_TotalAtMostCap ==
    (probe.summary # <<>> /\ Sensitive(probe.text) = {}) =>
        /\ \A ph \in Placeholders : ~Contains(probe.summary, ph)
        /\ Len(probe.summary) <= SUMMARY_CAP

\* C14: the summary of a text with no imminent, high_risk or nssi match is
\* the fixed prefix followed by the first 500 of the text, unchanged: no
\* placeholder is put in, and the cap applies to the part after the prefix.
C14_CapAfterPrefix ==
    (probe.summary # <<>> /\ Sensitive(probe.text) = {}) =>
        /\ probe.summary[1] = SUMMARY_PREFIX
        /\ Tail(probe.summary) = Take(probe.text, SUMMARY_CAP)
        /\ Len(Tail(probe.summary)) <= SUMMARY_CAP
        /\ \A ph \in Placeholders : ~Contains(probe.summary, ph)

\* the summary of a text longer than the cap with nothing to redact
C14_Witness ==
    /\ probe.summary # <<>>
    /\ Sensitive(probe.text) = {}
    /\ Len(probe.text) > SUMMARY_CAP
    /\ Len(probe.summary) = SUMMARY_CAP + 1

\* conversation state after the run held by slot h has been handled alone,
\* from the state st = [msgs, ctx]
SeqAfter(st, h) ==
    IF handlers[h].label \in CrisisLabels
    THEN [msgs |-> st.msgs, ctx |-> SummaryOf[handlers[h].text]]
    ELSE [msgs |-> append_turn(Prepared(st.msgs, st.ctx, handlers[h].text),
                               "assistant", handlers[h].reply),
          ctx |-> None]

\* the two slots hold the two messages received so far, both of one chat, and
\* both runs are over: the second run started while the first was suspended
BothOver ==
    /\ Len(log) = 2
    /\ handlers[1].chat = handlers[2].chat
    /\ \A h \in HandlerIds : handlers[h].pc \in {"done", "error"}

\* C15: after two messages of one conversation were handled concurrently,
\* the history and the pending-context slot are those of handling the two
\* messages one after the other in some order.
C15_Serialisable ==
    BothOver =>
        LET c == handlers[1].chat
            start == [msgs |-> <<>>, ctx |-> None]
        IN  [msgs |-> DIALOGS[c], ctx |-> SAFE_CTX[c]] \in
                {SeqAfter(SeqAfter(start, 1), 2), SeqAfter(SeqAfter(start, 2), 1)}

\* the step handles a message of chat c: it receives one, or it resumes the
\* run of one
ActsOn(c) ==
    \/ log' # log /\ log'[Len(log')].chat = c
    \/ log' = log /\ \E h \in HandlerIds :
                        handlers'[h] # handlers[h] /\ handlers[h].chat = c

\* C16: a step of handling a message of one conversation, in any branch and
\* with any backend outcome, leaves the history and the pending-context slot
\* of every other conversation unchanged.
C16_OtherChatsUnchanged ==
    [][\A c \in ChatIds :
          (DIALOGS'[c] # DIALOGS[c] \/ SAFE_CTX'[c] # SAFE_CTX[c]) => ActsOn(c)]_vars

\* both chats have a history of their own, one has a stashed context, and a
\* run of the other one is suspended in the backend call
C16_Witness ==
    /\ DIALOGS[1] # <<>> /\ DIALOGS[2] # <<>> /\ DIALOGS[1] # DIALOGS[2]
    /\ SAFE_CTX[1] # None
    /\ \E h \in HandlerIds : handlers[h].pc = "await_chat" /\ handlers[h].chat = 2

\* the run of slot h is over and has answered: one backend call, the reply
\* sent last with the footer, and stored as the last turn of the chat
Answered(h) ==
    /\ handlers[h].pc = "done"
    /\ handlers[h].calls = 1
    /\ Len(handlers[h].out) = (IF handlers[h].label = "toxic" THEN 2 ELSE 1)
    /\ handlers[h].out[Len(handlers[h].out)] = render_with_footer(handlers[h].reply)
    /\ DIALOGS[handlers[h].chat] # <<>>
    /\ DIALOGS[handlers[h].chat][Len(DIALOGS[handlers[h].chat])]
            = Turn("assistant", handlers[h].reply)

\* C17: a Benign or Toxic message whose backend call returns or fails is
\* eventually answered; the handler calls the backend exactly once, then
\* appends exactly one Assistant turn and sends exactly one reply, on the
\* success path and on the failure path alike.
C17_EventuallyAnswered ==
    /\ \A h \in SeqHandlers :
          (handlers[h].pc \in {"toxic_sent", "await_chat"}) ~> Answered(h)
    /\ [](\A h \in SeqHandlers : handlers[h].calls <= 1)
    /\ [][\A h \in SeqHandlers :
             (handlers[h].pc = "await_chat" /\ handlers'[h] # handlers[h]) =>
                 /\ handlers'[h].pc = "done"
                 /\ handlers'[h].calls = 1
                 /\ handlers'[h].reply \in Replies \cup {FALLBACK_REPLY}
                 /\ DIALOGS'[handlers[h].chat] =
                        append_turn(DIALOGS[handlers[h].chat], "assistant",
                                    handlers'[h].reply)
                 /\ handlers'[h].out =
                        Append(handlers[h].out,
                               render_with_footer(handlers'[h].reply))]_vars

\* a toxic message answered with the fallback after the backend failed
C17_Witness ==
    \E h \in SeqHandlers :
        /\ Answered(h)
        /\ handlers[h].label = "toxic"
        /\ handlers[h].reply = FALLBACK_REPLY

\* C18: every history passed to the generative backend contains the fixed
\* SYSTEM_PROMPT turn, also after old turns were evicted by the history bound.
C18_PromptInEveryRequest ==
    \A h \in HandlerIds :
        handlers[h].pc = "await_chat" =>
            Occurrences(handlers[h].req, SysTurn(SYSTEM_PROMPT)) >= 1

\* crisis messages of chat c received so far: the stashes made for it
Stashes(c) ==
    Cardinality({k \in 1..Len(log) : log[k].chat = c /\ IsCrisis(log[k].text)})

\* the runs of chat c that hold a summary taken from the slot
Takers(c) ==
    {h \in HandlerIds : handlers[h].chat = c /\ handlers[h].safe # None}

\* C19: with runs of one conversation interleaved, a stashed summary is
\* taken by at most one run and inserted into the history at most once: the
\* run that reads the slot empties it in the same step and inserts the
\* summary once, so one stash never serves two runs.
C19_TakeIsAtomic ==
    /\ [](\A c \in ChatIds :
            /\ Cardinality(Takers(c)) <= Stashes(c)
            /\ Cardinality(SummaryTurns(DIALOGS[c])) <= Stashes(c))
    /\ [][\A h \in HandlerIds :
             (CallStep(h) /\ handlers'[h].safe # None) =>
                 LET c == handlers'[h].chat
                 IN  /\ SAFE_CTX[c] = handlers'[h].safe
                     /\ SAFE_CTX'[c] = None
                     /\ Occurrences(DIALOGS'[c], SysTurn(handlers'[h].safe))
                          = Occurrences(DIALOGS[c], SysTurn(handlers'[h].safe)) + 1
                     /\ \A g \in HandlerIds \ {h} : handlers'[g] = handlers[g]]_vars

\* one stash, two runs of the chat suspended in the backend call at the same
\* time: one of them took the summary, the other found the slot empty
C19_Witness ==
    /\ Stashes(1) = 1
    /\ \A h \in HandlerIds : handlers[h].pc = "await_chat" /\ handlers[h].chat = 1
    /\ Cardinality(Takers(1)) = 1
    /\ Cardinality(SummaryTurns(DIALOGS[1])) = 1
    /\ SAFE_CTX[1] = None

\* the User and Assistant turns of a history, in order
NonSystem(msgs) == SelectSeq(msgs, LAMBDA m : m.role # "system")

Alternates(s) == \A k \in 1..(Len(s) - 1) : s[k].role # s[k + 1].role

\* C20: with the messages of a conversation handled one at a time, the
\* non-System turns of the history alternate User, Assistant: between
\* messages they start with a User turn and end with an Assistant turn; a
\* crisis message adds no turn, every other message adds one User turn when
\* the backend is called and one Assistant turn when the call is over,
\* whether it returned or failed.
C20_TurnsAlternate ==
    /\ [](\A c \in SeqChats :
            /\ Alternates(NonSystem(DIALOGS[c]))
            /\ (NoneRunning /\ NonSystem(DIALOGS[c]) # <<>>) =>
                  /\ NonSystem(DIALOGS[c])[1].role = "user"
                  /\ DIALOGS[c][Len(DIALOGS[c])].role = "assistant")
    /\ [][\A h \in SeqHandlers :
             LET c == handlers'[h].chat
             IN  /\ (ReceiveStep /\ IsCrisis(log'[Len(log')].text)) =>
                        DIALOGS' = DIALOGS
                 /\ CallStep(h) =>
                        DIALOGS'[c][Len(DIALOGS'[c])] = Turn("user", handlers'[h].text)
                 /\ (handlers[h].pc = "await_chat" /\ handlers'[h].pc = "done") =>
                        DIALOGS'[c][Len(DIALOGS'[c])]
                            = Turn("assistant", handlers'[h].reply)]_vars

\* a full history between messages, after a crisis message and a backend
\* failure
C20_Witness ==
    /\ NoneRunning
    /\ Len(DIALOGS[1]) = HistoryBound
    /\ \E k \in 1..Len(log) : IsCrisis(log[k].text)
    /\ \E h \in SeqHandlers :
          handlers[h].pc = "done" /\ handlers[h].reply = FALLBACK_REPLY

====
